---- MODULE Spec2Model ----
(***************************************************************************)
(* Alpha2Base (moehlenhoff_alpha2/__init__.py): the cached snapshot        *)
(* static_data, the asyncio lock _update_lock, the transport calls with    *)
(* their single retry, and the operations update_data, set_cooling,        *)
(* send_command, update_heat_area and the read accessors, run as asyncio   *)
(* tasks on one event loop.  A step of a task is the code between two      *)
(* suspension points (an await that really suspends).                      *)
(***************************************************************************)
EXTENDS Integers, Sequences, FiniteSets, TLC

VARIABLES
    static_data,  \* self.static_data: None or the parsed, normalised document
    locked,       \* self._update_lock._locked
    waiters,      \* self._update_lock._waiters, in arrival order
    task,         \* per task, the frame of its call:
                  \*   pc          where the coroutine is suspended
                  \*   call        the operation called, its arguments and locals
                  \*   result      how the call ended
                  \*   xml         the request body built by _send_command
                  \*   trynum      trynum of the transport call in progress
                  \*   first_error what attempt 1 of that transport call raised
    elapsed,      \* time.time() - start in the set_cooling that holds the lock
    last_post,    \* the task whose POST request went out last (0: none yet)
    dev_cooling,  \* the appliance: its cooling flag
    dev_pending   \* the appliance: cooling commands received, not yet applied

vars == <<static_data, locked, waiters, task, elapsed, last_post,
          dev_cooling, dev_pending>>

\* ----------------------------------------------------------------- bounds
NumTasks == 3
MaxHttpTime == 1

\* ------------------------------------------------------ program constants
command_poll_interval == 2
command_timeout == 10

Tasks == 1..NumTasks

\* ---------------------------------------------------------- python values
None == [none |-> TRUE]

\* a scalar as Python holds it: its type and its text
PyStr(s) == [ty |-> "str", s |-> s]
PyInt(s) == [ty |-> "int", s |-> s]

Digit(d) ==
    CASE d = 0 -> "0" [] d = 1 -> "1" [] d = 2 -> "2" [] d = 3 -> "3"
      [] d = 4 -> "4" [] d = 5 -> "5" [] d = 6 -> "6" [] d = 7 -> "7"
      [] d = 8 -> "8" [] d = 9 -> "9"

RECURSIVE IntChars(_)
\* str(n) for an int n >= 0, as its characters
IntChars(n) == IF n < 10 THEN <<Digit(n)>> ELSE IntChars(n \div 10) \o <<Digit(n % 10)>>

RECURSIVE Join(_)
\* the string made of a sequence of characters
Join(chars) == IF chars = <<>> THEN "" ELSE Head(chars) \o Join(Tail(chars))

\* int(x) for a value whose text is one digit
int(x) == CHOOSE d \in 0..9 : Digit(d) = x.s

DigitChars == {Digit(d) : d \in 0..9}
DigitValue(c) == CHOOSE d \in 0..9 : Digit(d) = c

RECURSIVE Decimal(_)
\* the number a sequence of digits writes
Decimal(chars) ==
    IF chars = <<>> THEN 0
    ELSE 10 * Decimal(SubSeq(chars, 1, Len(chars) - 1)) + DigitValue(chars[Len(chars)])

\* int(s) for a str s, given as its characters (no sign, blanks or
\* underscores): the number, or ValueError
ParseInt(chars) ==
    IF chars # <<>> /\ \A i \in 1..Len(chars) : chars[i] \in DigitChars
    THEN [exc |-> "none", value |-> Decimal(chars)]
    ELSE [exc |-> "ValueError"]

\* float(s) for a str s written as digits, or digits "." digit: its tenths,
\* or ValueError
ParseFloat(chars) ==
    LET n == Len(chars) IN
    IF ParseInt(chars).exc = "none"
    THEN [exc |-> "none", value |-> 10 * Decimal(chars)]
    ELSE IF n >= 3 /\ chars[n - 1] = "." /\ chars[n] \in DigitChars
            /\ ParseInt(SubSeq(chars, 1, n - 2)).exc = "none"
    THEN [exc |-> "none",
          value |-> 10 * Decimal(SubSeq(chars, 1, n - 2)) + DigitValue(chars[n])]
    ELSE [exc |-> "ValueError"]

\* ------------------------------------------------------------ the appliance
BaseIdChars == <<"E", "Z", "R", "1">>
BaseId == Join(BaseIdChars)
BaseName == "Alpha2Test"

\* the elements of the document as xmltodict.parse gives them: attribute
\* nr (the key "@nr") and child elements, each value a str (its characters)
Area(nr) == [nr |-> nr, HEATAREA_NAME |-> <<"A">>, T_TARGET |-> <<"2", "1", ".", "5">>]
Ctrl(nr, inuse, heatarea_nr, state) ==
    [nr |-> nr, INUSE |-> inuse, HEATAREA_NR |-> heatarea_nr, HEATCTRL_STATE |-> state]
Io(nr, heatarea_nr) == [nr |-> nr, HEATAREA_NR |-> heatarea_nr, ISON |-> <<"1">>]

\* the three repeated elements, in the order _get_static_data visits them
Collections == <<"HEATAREA", "HEATCTRL", "IODEVICE">>

\* xmltodict.parse on a repeated element with these entries (at least one):
\* several are a list, a single one is a bare record
Element(entries) ==
    IF Len(entries) = 1 THEN [list |-> FALSE, item |-> entries[1]]
    ELSE [list |-> TRUE, items |-> entries]

\* xmltodict.parse(...)["Devices"]["Device"] for a document with these
\* entries: an element that does not occur gives no key
Document(cooling, areas, ctrls, ios) ==
    LET entries == [HEATAREA |-> areas, HEATCTRL |-> ctrls, IODEVICE |-> ios] IN
    [k \in {"ID", "NAME", "COOLING"} \cup {c \in DOMAIN entries : entries[c] # <<>>} |->
        CASE k = "ID" -> BaseId
          [] k = "NAME" -> BaseName
          [] k = "COOLING" -> PyStr(Join(IntChars(cooling)))
          [] OTHER -> Element(entries[k])]

\* the state document the appliance serves: one heat area, two heat
\* controls, one io device
DeviceTree ==
    Document(dev_cooling,
             <<Area(<<"1">>)>>,
             <<Ctrl(<<"1">>, <<"1">>, <<"1">>, <<"0">>),
               Ctrl(<<"2">>, <<"0">>, <<"0">>, <<"0">>)>>,
             <<Io(<<"1">>, <<"1">>)>>)

\* the body of a GET /data/static.xml response: the document, or text that
\* is no XML document
Bodies == {[wellformed |-> TRUE, tree |-> DeviceTree], [wellformed |-> FALSE]}

\* --------------------------------------------------------------- transport
ClientErrors == {"ClientConnectionError", "ClientResponseError"}
HttpErrors == ClientErrors \cup {"UnicodeDecodeError", "asyncio.TimeoutError"}
Outcomes == {"ok"} \cup HttpErrors

\* except (UnicodeDecodeError, aiohttp.ClientError): if trynum == 2: raise
Retried(n, e) == e \in ({"UnicodeDecodeError"} \cup ClientErrors) /\ n # 2

\* _send_command's request body
Envelope(device_id, command) ==
    "<?xml version=\"1.0\" encoding=\"UTF-8\"?>\n"
    \o "<Devices><Device>"
    \o "<ID>" \o device_id \o "</ID>" \o command
    \o "</Device></Devices>"

\* if not isinstance(x, list): x = [x]
AsList(x) == IF x.list THEN x ELSE [list |-> TRUE, items |-> <<x.item>>]

\* _get_static_data, after the fetch and the parse: wrap bare records
Normalise(tree) ==
    [k \in DOMAIN tree |->
        IF \E i \in 1..Len(Collections) : Collections[i] = k THEN AsList(tree[k])
        ELSE tree[k]]

\* data["Devices"]["Device"][_type] for an element that does not occur
NormaliseFails(tree) == \E i \in 1..Len(Collections) : Collections[i] \notin DOMAIN tree

\* the KeyError a dict raises for the key it does not hold
MissingKey(k) == [exc |-> "KeyError", key |-> k]

\* the first of the three elements that the document does not hold
FirstMissing(tree) ==
    Collections[CHOOSE i \in 1..Len(Collections) :
                   /\ Collections[i] \notin DOMAIN tree
                   /\ \A j \in 1..(i - 1) : Collections[j] \in DOMAIN tree]

\* --------------------------------------------------------- command builder
\* _TYPES["HEATAREA"]
HeatAreaTypes ==
    [BLOCK_HC |-> "bool", HEATAREA_NAME |-> "str", HEATAREA_MODE |-> "int",
     HEATAREA_STATE |-> "int", HEATINGSYSTEM |-> "int", ISLOCKED |-> "bool",
     LIGHT |-> "int", LOCK_AVAILABLE |-> "bool", LOCK_CODE |-> "str",
     OFFSET |-> "float", PARTY |-> "bool", PARTY_REMAININGTIME |-> "int",
     PRESENCE |-> "bool", PROGRAM_SOURCE |-> "int", PROGRAM_WEEK |-> "int",
     PROGRAM_WEEKEND |-> "int", RPM_MOTOR |-> "int", SENSOR_EXT |-> "int",
     T_ACTUAL |-> "float", T_ACTUAL_EXT |-> "float", T_COOL_DAY |-> "float",
     T_COOL_NIGHT |-> "float", T_FLOOR_DAY |-> "float", T_HEAT_DAY |-> "float",
     T_HEAT_NIGHT |-> "float", T_TARGET |-> "float",
     T_TARGET_ADJUSTABLE |-> "bool", T_TARGET_BASE |-> "float",
     T_TARGET_MIN |-> "float", T_TARGET_MAX |-> "float"]

\* the values a caller passes in an attribute map:
\*   [ty |-> "bool", b], [ty |-> "int", n], [ty |-> "str", chars],
\*   [ty |-> "float", tenths]: the float tenths / 10 (one fractional digit)
Truthy(v) ==
    CASE v.ty = "bool" -> v.b
      [] v.ty = "int" -> v.n # 0
      [] v.ty = "float" -> v.tenths # 0
      [] v.ty = "str" -> v.chars # <<>>

\* str(v)
str(v) ==
    CASE v.ty = "bool" -> IF v.b THEN "True" ELSE "False"
      [] v.ty = "int" -> Join(IntChars(v.n))
      [] v.ty = "float" -> Join(IntChars(v.tenths \div 10)) \o "." \o Digit(v.tenths % 10)
      [] v.ty = "str" -> Join(v.chars)

\* f"{float(v):0.1f}" for a float or an int
FormatFloat(v) ==
    CASE v.ty = "float" -> Join(IntChars(v.tenths \div 10)) \o "." \o Digit(v.tenths % 10)
      [] v.ty = "int" -> Join(IntChars(v.n)) \o ".0"

\* one attribute of convert_types_for_xml("HEATAREA", data)
ForXml(attribute, v) ==
    IF attribute \in DOMAIN HeatAreaTypes /\ HeatAreaTypes[attribute] = "bool"
    THEN IF Truthy(v) /\ ~(v.ty = "str" /\ v.chars = <<"0">>) THEN "1" ELSE "0"
    ELSE IF attribute \in DOMAIN HeatAreaTypes /\ HeatAreaTypes[attribute] = "float"
    THEN FormatFloat(v)
    ELSE str(v)

\* convert_types_for_xml("HEATAREA", data): a dict keeps its order
convert_types_for_xml(data) ==
    [i \in 1..Len(data) |-> [attr |-> data[i].attr, val |-> ForXml(data[i].attr, data[i].val)]]

RECURSIVE Split(_, _)
\* chars.split(sep)
Split(chars, sep) ==
    IF \A i \in 1..Len(chars) : chars[i] # sep THEN <<chars>>
    ELSE LET i == CHOOSE k \in 1..Len(chars) :
                      chars[k] = sep /\ \A m \in 1..(k - 1) : chars[m] # sep
         IN <<SubSeq(chars, 1, i - 1)>> \o Split(SubSeq(chars, i + 1, Len(chars)), sep)

RECURSIVE Elements(_)
\* for attr, val in attributes.items(): command += f"<{attr}>{val}</{attr}>"
Elements(items) ==
    IF items = <<>> THEN ""
    ELSE "<" \o Head(items).attr \o ">" \o Head(items).val \o "</" \o Head(items).attr \o ">"
         \o Elements(Tail(items))

\* self.id on the snapshot sd
id(sd) == IF sd = None THEN [exc |-> "RuntimeError"] ELSE [exc |-> "none", value |-> sd.ID]

\* an update_heat_area that unpacks the two parts of a qualified id the
\* wrong way round
HeatAreaCommandSwapped(sd, heat_area_id, attributes) ==
    LET chars == IF heat_area_id.ty = "int" THEN IntChars(heat_area_id.n)
                 ELSE heat_area_id.chars
        qualified == \E i \in 1..Len(chars) : chars[i] = ":"
        parts == Split(chars, ":")
        own == id(sd)
        ha_nr == IF qualified THEN Join(parts[1]) ELSE Join(chars)
        command == "<HEATAREA nr=\"" \o ha_nr \o "\">"
                   \o Elements(convert_types_for_xml(attributes)) \o "</HEATAREA>"
    IN  IF qualified /\ Len(parts) # 2 THEN [exc |-> "ValueError"]
        ELSE IF ~qualified /\ own.exc # "none" THEN [exc |-> own.exc]
        ELSE [exc |-> "none",
              device_id |-> IF qualified THEN Join(parts[2]) ELSE own.value,
              command |-> command]

\* update_heat_area up to the lock: the device id and the command it will
\* post, or the exception it raises.  heat_area_id is [ty |-> "int", n] or
\* [ty |-> "str", chars]
HeatAreaCommand(sd, heat_area_id, attributes) ==
    LET chars == IF heat_area_id.ty = "int" THEN IntChars(heat_area_id.n)
                 ELSE heat_area_id.chars
        qualified == \E i \in 1..Len(chars) : chars[i] = ":"
        parts == Split(chars, ":")
        own == id(sd)
        ha_nr == IF qualified THEN Join(parts[2]) ELSE Join(chars)
        command == "<HEATAREA nr=\"" \o ha_nr \o "\">"
                   \o Elements(convert_types_for_xml(attributes)) \o "</HEATAREA>"
    IN  IF qualified /\ Len(parts) # 2 THEN [exc |-> "ValueError"]
        ELSE IF ~qualified /\ own.exc # "none" THEN [exc |-> own.exc]
        ELSE [exc |-> "none",
              device_id |-> IF qualified THEN Join(parts[1]) ELSE own.value,
              command |-> command]

\* set_cooling's command for value in {0, 1}
CoolingCommand(value) == "<COOLING>" \o Join(IntChars(value)) \o "</COOLING>"

\* ------------------------------------------------------------------ frames
Returned == [exc |-> "none"]
Raised(e) == [exc |-> e]
Pending == [exc |-> "pending"]

Frame(pc, c, r, x, n, e) ==
    [pc |-> pc, call |-> c, result |-> r, xml |-> x, trynum |-> n, first_error |-> e]

Idle == Frame("idle", [op |-> "none"], Pending, "", 0, "none")
Waiting(c) == Frame("waiting", c, Pending, "", 0, "none")
\* the coroutine returned or raised: its result is on its way to the caller
Done(c, r) == Frame("done", c, r, "", 0, "none")
\* the caller has the result, the frame is gone
Over == Frame("over", [op |-> "none"], Pending, "", 0, "none")
\* _send_command(device_id, c.command) at its first request
Posting(c, device_id) == Frame("post", c, Pending, Envelope(device_id, c.command), 1, "none")
\* _fetch_static_data at its first request
Fetching(c) == Frame("get", c, Pending, "", 1, "none")
\* asyncio.sleep(self._command_poll_interval)
Sleeping(c) == Frame("sleep", c, Pending, "", 0, "none")

Inside(t) == task[t].pc \in {"post", "sleep", "get"}

\* no call has just ended: a call that ends hands its result to its caller
\* before anything else is looked at
Quiet == \A t \in Tasks : task[t].pc # "done"

\* a facade fresh from its constructor, or one left by an earlier
\* update_data; the appliance is heating (set_cooling(False) and
\* set_cooling(True) then cover a request for the present and for the other mode)
Init ==
    /\ dev_cooling = 0
    /\ dev_pending = {}
    /\ static_data \in {None, Normalise(DeviceTree)}
    /\ locked = FALSE
    /\ waiters = <<>>
    /\ task = [t \in Tasks |-> Idle]
    /\ elapsed = 0
    /\ last_post = 0

\* ------------------------------------------------------------ the gate
\* a send_command that asks for the lock again inside the block
BodyReentrant(c, sd) ==
    CASE c.op = "update_data" -> Fetching(c)
      [] c.op = "send_command" -> Waiting(c)
      [] c.op = "set_cooling" -> Posting(c, id(sd).value)
      [] c.op = "update_heat_area" -> Posting(c, c.device_id)

\* the frame of a call c once it is inside "async with self._update_lock",
\* at its first suspension (or over, when it raised before one)
Body(c, sd) ==
    CASE c.op = "update_data" -> Fetching(c)
      [] c.op = "send_command" ->
           IF id(sd).exc # "none" THEN Done(c, Raised(id(sd).exc))
           ELSE Posting(c, id(sd).value)
      [] c.op = "set_cooling" -> Posting(c, id(sd).value)
      [] c.op = "update_heat_area" -> Posting(c, c.device_id)

\* task t goes on with frame g
Commit(t, g) == task' = [task EXCEPT ![t] = g]

\* the caller of task t takes the result of the call
Deliver(t) ==
    /\ task[t].pc = "done"
    /\ Commit(t, Over)
    /\ UNCHANGED <<static_data, locked, waiters, elapsed, last_post, dev_cooling,
                   dev_pending>>

\* a lock left without being released, were an exception to skip the release
HeldUnlessReturned(g) == g.pc # "done" \/ g.result.exc # "none"

\* "async with self._update_lock": the lock stays held while the call with
\* frame g is inside the block, and is released however the block is left
Held(g) == g.pc # "done"

\* task t takes the lock and runs to its first suspension
Enter(t, c) ==
    LET g == Body(c, static_data) IN
    /\ Commit(t, g)
    /\ locked' = Held(g)
    /\ last_post' = IF g.pc = "post" THEN t ELSE last_post

\* an acquire that does not look at the lock
FastPathUnlocked == waiters = <<>>

\* asyncio.Lock.acquire(): the lock is taken at once when it is free and
\* nobody waits for it
FastPath == ~locked /\ waiters = <<>>

\* async with self._update_lock
Acquire(t, c) ==
    IF FastPath
    THEN Enter(t, c) /\ UNCHANGED waiters
    ELSE /\ waiters' = Append(waiters, t)
         /\ Commit(t, Waiting(c))
         /\ UNCHANGED <<locked, last_post>>

\* a release that wakes the waiter that came last
LastWaiter == waiters[Len(waiters)]

\* the waiter asyncio.Lock.release() wakes: the first of _waiters
NextWaiter == Head(waiters)

\* the event loop runs the waiter that release() woke
Resume(t) ==
    /\ Quiet
    /\ task[t].pc = "waiting"
    /\ ~locked
    /\ waiters # <<>>
    /\ NextWaiter = t
    /\ waiters' = SelectSeq(waiters, LAMBDA u : u # t)
    /\ Enter(t, task[t].call)
    /\ UNCHANGED <<static_data, elapsed, dev_cooling, dev_pending>>

\* calls are numbered in the order they are started
CanStart(t) ==
    /\ Quiet
    /\ task[t].pc = "idle"
    /\ \A u \in Tasks : u < t => task[u].pc # "idle"

\* ------------------------------------------------------------ operations
update_data(t) ==
    /\ CanStart(t)
    /\ Acquire(t, [op |-> "update_data"])
    /\ UNCHANGED <<static_data, elapsed, dev_cooling, dev_pending>>

send_command(t, command) ==
    /\ CanStart(t)
    /\ Acquire(t, [op |-> "send_command", command |-> command])
    /\ UNCHANGED <<static_data, elapsed, dev_cooling, dev_pending>>

\* self.static_data["Devices"]["Device"]["COOLING"] = value
WriteCooling(sd, value) == [sd EXCEPT !.COOLING = PyInt(Join(IntChars(value)))]

set_cooling(t, b) ==
    LET value == IF b THEN 1 ELSE 0
        c == [op |-> "set_cooling", value |-> value, command |-> CoolingCommand(value)]
    IN  /\ CanStart(t)
        /\ IF static_data = None
           THEN \* None["Devices"]
                /\ Commit(t, Done(c, Raised("TypeError")))
                /\ UNCHANGED <<static_data, locked, waiters, last_post>>
           ELSE /\ static_data' = WriteCooling(static_data, value)
                /\ Acquire(t, c)
        /\ UNCHANGED <<elapsed, dev_cooling, dev_pending>>

update_heat_area(t, heat_area_id, attributes) ==
    LET r == HeatAreaCommand(static_data, heat_area_id, attributes)
        c == [op |-> "update_heat_area", heat_area_id |-> heat_area_id,
              attributes |-> attributes]
    IN  /\ CanStart(t)
        /\ IF r.exc # "none"
           THEN /\ Commit(t, Done(c, Raised(r.exc)))
                /\ UNCHANGED <<locked, waiters, last_post>>
           ELSE Acquire(t, [op |-> "update_heat_area", heat_area_id |-> heat_area_id,
                            attributes |-> attributes, device_id |-> r.device_id,
                            command |-> r.command])
        /\ UNCHANGED <<static_data, elapsed, dev_cooling, dev_pending>>

\* ------------------------------------------------- the transport's answers
\* the appliance takes a command whose request came through to it
Received(command) ==
    IF \E v \in {0, 1} : command = CoolingCommand(v)
    THEN {CHOOSE v \in {0, 1} : command = CoolingCommand(v)}
    ELSE dev_pending

\* a POST after which every call polls for a confirmation
AfterPostConfirming(f, o) ==
    IF o = "ok" THEN Sleeping(f.call)
    ELSE IF Retried(f.trynum, o) THEN [f EXCEPT !.trynum = 2, !.first_error = o]
    ELSE Done(f.call, Raised(o))

\* the frame after the POST of frame f ended with outcome o (the response
\* read, or an exception)
AfterPost(f, o) ==
    IF o = "ok"
    THEN IF f.call.op = "set_cooling" THEN Sleeping(f.call) ELSE Done(f.call, Returned)
    ELSE IF Retried(f.trynum, o) THEN [f EXCEPT !.trynum = 2, !.first_error = o]
    ELSE Done(f.call, Raised(o))

PostDone(t, o) ==
    LET f == task[t]
        g == AfterPost(f, o)
    IN  /\ Quiet
        /\ f.pc = "post"
        /\ Commit(t, g)
        /\ locked' = Held(g)
        /\ last_post' = IF g.pc = "post" THEN t ELSE last_post
        \* start = time.time()
        /\ elapsed' = IF g.pc = "sleep" THEN 0 ELSE elapsed
        /\ dev_pending' = IF o \in {"ok", "UnicodeDecodeError"}
                          THEN Received(f.call.command) ELSE dev_pending
        /\ UNCHANGED <<static_data, waiters, dev_cooling>>

\* await asyncio.sleep(self._command_poll_interval) is over
SleepDone(t) ==
    /\ Quiet
    /\ task[t].pc = "sleep"
    /\ elapsed' = elapsed + command_poll_interval
    /\ Commit(t, Fetching(task[t].call))
    /\ UNCHANGED <<static_data, locked, waiters, last_post, dev_cooling, dev_pending>>

\* a deadline test that takes the poll interval for the deadline
TimedOutAfterInterval(e) == e > command_poll_interval

\* if elapsed > self._command_timeout
TimedOut(e) == e > command_timeout

\* if int(data["Devices"]["Device"]["COOLING"]) == value
Matches(data, value) == int(data.COOLING) = value

\* a poll that looks at the deadline before it looks at the document
AfterGetDeadlineFirst(f, o, now, body) ==
    IF o = "ok"
    THEN IF ~body.wellformed THEN Done(f.call, Raised("ExpatError"))
         ELSE IF NormaliseFails(body.tree)
         THEN Done(f.call, MissingKey(FirstMissing(body.tree)))
         ELSE IF f.call.op = "update_data"
         THEN IF "NAME" \in DOMAIN body.tree THEN Done(f.call, Returned)
              ELSE Done(f.call, MissingKey("NAME"))
         ELSE IF TimedOut(now)
         THEN Done(f.call, [exc |-> "TimeoutError", elapsed |-> now])
         ELSE IF Matches(Normalise(body.tree), f.call.value) THEN Done(f.call, Returned)
         ELSE Sleeping(f.call)
    ELSE IF Retried(f.trynum, o) THEN [f EXCEPT !.trynum = 2, !.first_error = o]
    ELSE Done(f.call, Raised(o))

\* the frame after the GET of frame f ended with outcome o, the clock at now
\* since start; body is what a response carried
AfterGet(f, o, now, body) ==
    IF o = "ok"
    THEN IF ~body.wellformed THEN Done(f.call, Raised("ExpatError"))  \* xmltodict.parse
         ELSE IF NormaliseFails(body.tree)
         THEN Done(f.call, MissingKey(FirstMissing(body.tree)))
         ELSE IF f.call.op = "update_data"
         THEN \* logger.debug(..., self.name, ...) after the assignment
              IF "NAME" \in DOMAIN body.tree THEN Done(f.call, Returned)
              ELSE Done(f.call, MissingKey("NAME"))
         ELSE IF Matches(Normalise(body.tree), f.call.value) THEN Done(f.call, Returned)
         ELSE IF TimedOut(now)
         THEN \* f"Timed out after {elapsed:0.0f} seconds ..."
              Done(f.call, [exc |-> "TimeoutError", elapsed |-> now])
         ELSE Sleeping(f.call)
    ELSE IF Retried(f.trynum, o) THEN [f EXCEPT !.trynum = 2, !.first_error = o]
    ELSE Done(f.call, Raised(o))

\* a set_cooling that leaves the cache as it is when the appliance confirms
StoresOnUpdateOnly(f, o, body) ==
    /\ o = "ok"
    /\ body.wellformed
    /\ f.call.op = "update_data"

\* an assignment of the snapshot that does not wait for the fetch to succeed
StoresWhateverOutcome(f, o, body) ==
    /\ body.wellformed
    /\ ~NormaliseFails(body.tree)
    /\ \/ f.call.op = "update_data"
       \/ Matches(Normalise(body.tree), f.call.value)

\* whether the GET that ended so stores the document it fetched
Stores(f, o, body) ==
    /\ o = "ok"
    /\ body.wellformed
    /\ ~NormaliseFails(body.tree)
    /\ \/ f.call.op = "update_data"
       \/ Matches(Normalise(body.tree), f.call.value)

\* the GET of task t ends after d time units
GetDone(t, o, d, body) ==
    LET f == task[t]
        now == elapsed + d
        g == AfterGet(f, o, now, body)
    IN  /\ Quiet
        /\ f.pc = "get"
        /\ f.call.op = "update_data" => d = 0
        /\ o # "ok" => body.wellformed
        /\ Commit(t, g)
        /\ locked' = Held(g)
        /\ static_data' = IF Stores(f, o, body) THEN Normalise(body.tree) ELSE static_data
        /\ elapsed' = IF g.pc = "done" THEN 0 ELSE now
        /\ UNCHANGED <<waiters, last_post, dev_cooling, dev_pending>>

\* the caller's task is cancelled while the call is suspended
Cancel(t) ==
    /\ Quiet
    /\ task[t].pc \in {"waiting", "post", "sleep", "get"}
    /\ Commit(t, Done(task[t].call, Raised("CancelledError")))
    /\ waiters' = SelectSeq(waiters, LAMBDA u : u # t)
    /\ locked' = IF Inside(t) THEN FALSE ELSE locked
    /\ elapsed' = IF Inside(t) THEN 0 ELSE elapsed
    /\ UNCHANGED <<static_data, last_post, dev_cooling, dev_pending>>

\* the appliance applies a command it received
DeviceApply ==
    /\ Quiet
    /\ dev_pending # {}
    /\ dev_cooling' \in dev_pending
    /\ dev_pending' = {}
    /\ UNCHANGED <<static_data, locked, waiters, task, elapsed, last_post>>

\* ------------------------------------------------------------ read accessors
\* _ensure_static_data: the exception it raises, or "none"
ensure_static_data(sd) == IF sd = None THEN "RuntimeError" ELSE "none"

\* _TYPES["IODEVICE"], _TYPES["HEATCTRL"]
IoDeviceTypes ==
    [IODEVICE_TYPE |-> "int", IODEVICE_ID |-> "int", IODEVICE_VERS_HW |-> "str",
     IODEVICE_VERS_SW |-> "str", HEATAREA_NR |-> "int", SIGNALSTRENGTH |-> "int",
     BATTERY |-> "int", IODEVICE_STATE |-> "int", IODEVICE_COMERROR |-> "int",
     ISON |-> "bool"]
HeatCtrlTypes ==
    [INUSE |-> "bool", HEATAREA_NR |-> "int", ACTOR |-> "int", ACTOR_PERCENT |-> "int",
     HEATCTRL_STATE |-> "int"]

\* cls._TYPES.get(entity_type): the table, or an empty one
Types(entity_type) ==
    CASE entity_type = "IODEVICE" -> IoDeviceTypes
      [] entity_type = "HEATCTRL" -> HeatCtrlTypes
      [] entity_type = "HEATAREA" -> HeatAreaTypes
      [] OTHER -> <<>>

\* bool(int(v)), int(v), float(v), str(v) for a wire value v (a str, given
\* as its characters): the Python value, or the exception
FromWire(type, v) ==
    CASE type = "bool" ->
           IF ParseInt(v).exc # "none" THEN [exc |-> ParseInt(v).exc]
           ELSE [exc |-> "none", value |-> [ty |-> "bool", b |-> ParseInt(v).value # 0]]
      [] type = "int" ->
           IF ParseInt(v).exc # "none" THEN [exc |-> ParseInt(v).exc]
           ELSE [exc |-> "none", value |-> [ty |-> "int", n |-> ParseInt(v).value]]
      [] type = "float" ->
           IF ParseFloat(v).exc # "none" THEN [exc |-> ParseFloat(v).exc]
           ELSE [exc |-> "none", value |-> [ty |-> "float", tenths |-> ParseFloat(v).value]]
      [] type = "str" -> [exc |-> "none", value |-> [ty |-> "str", chars |-> v]]

\* convert_types_from_xml(entity_type, data): the converted copy (an
\* attribute the table does not list keeps its str), or the exception
convert_types_from_xml(entity_type, data) ==
    LET types == Types(entity_type)
        conv == [a \in DOMAIN data |->
                    FromWire(IF a \in DOMAIN types THEN types[a] ELSE "str", data[a])]
    IN  IF DOMAIN types = {} THEN [exc |-> "ValueError"]
        ELSE IF \E a \in DOMAIN data : conv[a].exc # "none" THEN [exc |-> "ValueError"]
        ELSE [exc |-> "none", value |-> [a \in DOMAIN data |-> conv[a].value]]

\* f"{device['ID']}:{nr}"
DerivedId(sd, nr) == [ty |-> "str", s |-> sd.ID \o ":" \o Join(IntChars(nr))]

\* one entity of io_devices or heat_controls from its record in the snapshot
Device(sd, kind, item) ==
    LET c == convert_types_from_xml(kind, item)
        nr == ParseInt(item.nr)
    IN  IF c.exc # "none" THEN [exc |-> c.exc]
        ELSE IF nr.exc # "none" THEN [exc |-> nr.exc]
        ELSE IF "HEATAREA_NR" \notin DOMAIN item THEN [exc |-> "KeyError"]
        ELSE [exc |-> "none",
              value |->
                [a \in (DOMAIN item \ {"nr"}) \cup {"NR", "ID", "_HEATAREA_ID"} |->
                    CASE a = "NR" -> [ty |-> "int", n |-> nr.value]
                      [] a = "ID" -> DerivedId(sd, nr.value)
                      [] a = "_HEATAREA_ID" ->
                           IF c.value.HEATAREA_NR.n # 0
                           THEN DerivedId(sd, c.value.HEATAREA_NR.n)
                           ELSE None
                      [] OTHER -> c.value[a]]]

RECURSIVE HeatCtrlState(_, _)
\* the scan of device["HEATCTRL"] in heat_areas for the area with ordinal
\* nr: _HEATCTRL_STATE, or the exception
HeatCtrlState(ctrls, nr) ==
    IF ctrls = <<>> THEN [exc |-> "none", value |-> 0]
    ELSE LET heatctrl == Head(ctrls) IN
         IF "INUSE" \notin DOMAIN heatctrl THEN [exc |-> "KeyError"]
         ELSE IF heatctrl.INUSE = <<>> THEN HeatCtrlState(Tail(ctrls), nr)
         ELSE IF "HEATAREA_NR" \notin DOMAIN heatctrl THEN [exc |-> "KeyError"]
         ELSE IF ParseInt(heatctrl.HEATAREA_NR).exc # "none" THEN [exc |-> "ValueError"]
         ELSE IF ParseInt(heatctrl.HEATAREA_NR).value # nr
         THEN HeatCtrlState(Tail(ctrls), nr)
         ELSE IF "HEATCTRL_STATE" \notin DOMAIN heatctrl THEN [exc |-> "KeyError"]
         ELSE IF ParseInt(heatctrl.HEATCTRL_STATE).exc # "none" THEN [exc |-> "ValueError"]
         ELSE IF ParseInt(heatctrl.HEATCTRL_STATE).value # 0
         THEN [exc |-> "none", value |-> ParseInt(heatctrl.HEATCTRL_STATE).value]
         ELSE HeatCtrlState(Tail(ctrls), nr)

\* one entity of heat_areas from its record in the snapshot
HeatArea(sd, item) ==
    LET c == convert_types_from_xml("HEATAREA", item)
        nr == ParseInt(item.nr)
        state == HeatCtrlState(sd.HEATCTRL.items, nr.value)
    IN  IF c.exc # "none" THEN [exc |-> c.exc]
        ELSE IF nr.exc # "none" THEN [exc |-> nr.exc]
        ELSE IF state.exc # "none" THEN [exc |-> state.exc]
        ELSE [exc |-> "none",
              value |->
                [a \in (DOMAIN item \ {"nr"}) \cup {"NR", "ID", "_HEATCTRL_STATE"} |->
                    CASE a = "NR" -> [ty |-> "int", n |-> nr.value]
                      [] a = "ID" -> DerivedId(sd, nr.value)
                      [] a = "_HEATCTRL_STATE" -> [ty |-> "int", n |-> state.value]
                      [] OTHER -> c.value[a]]]

\* list(self.heat_areas), list(self.heat_controls), list(self.io_devices):
\* the entities yielded, or the exception the generator raises on its way
Entities(sd, kind) ==
    LET items == sd[kind].items
        made == [i \in 1..Len(items) |->
                    IF kind = "HEATAREA" THEN HeatArea(sd, items[i])
                    ELSE Device(sd, kind, items[i])]
    IN  IF \E i \in 1..Len(items) : made[i].exc # "none"
        THEN Raised(made[CHOOSE i \in 1..Len(items) :
                            /\ made[i].exc # "none"
                            /\ \A j \in 1..(i - 1) : made[j].exc = "none"].exc)
        ELSE [exc |-> "none", value |-> [i \in 1..Len(items) |-> made[i].value]]

\* accessors that index the snapshot without calling _ensure_static_data
AccessorUnchecked(sd, acc) ==
    IF sd = None THEN Raised("TypeError")
    ELSE CASE acc = "name" ->
                IF "NAME" \in DOMAIN sd THEN [exc |-> "none", value |-> sd.NAME]
                ELSE Raised("KeyError")
           [] acc = "id" -> [exc |-> "none", value |-> sd.ID]
           [] acc = "cooling" -> [exc |-> "none", value |-> int(sd.COOLING) = 1]
           [] acc = "heat_areas" -> Entities(sd, "HEATAREA")
           [] acc = "heat_controls" -> Entities(sd, "HEATCTRL")
           [] acc = "io_devices" -> Entities(sd, "IODEVICE")

\* the property acc read on the snapshot sd (a collection is consumed whole)
Accessor(sd, acc) ==
    IF ensure_static_data(sd) # "none" THEN Raised(ensure_static_data(sd))
    ELSE CASE acc = "name" ->
                IF "NAME" \in DOMAIN sd THEN [exc |-> "none", value |-> sd.NAME]
                ELSE Raised("KeyError")
           [] acc = "id" -> [exc |-> "none", value |-> sd.ID]
           [] acc = "cooling" -> [exc |-> "none", value |-> int(sd.COOLING) = 1]
           [] acc = "heat_areas" -> Entities(sd, "HEATAREA")
           [] acc = "heat_controls" -> Entities(sd, "HEATCTRL")
           [] acc = "io_devices" -> Entities(sd, "IODEVICE")

\* a caller reads a property; no suspension point
read(t, acc) ==
    /\ CanStart(t)
    /\ Commit(t, Done([op |-> "read", acc |-> acc], Accessor(static_data, acc)))
    /\ UNCHANGED <<static_data, locked, waiters, elapsed, last_post, dev_cooling,
                   dev_pending>>

\* ------------------------------------------------------------ the inputs
Accessors == {"name", "id", "cooling", "heat_areas", "heat_controls", "io_devices"}
RawCommands == {CoolingCommand(1)}
HeatAreaIds == {[ty |-> "int", n |-> 1]}
AttributeMaps == {<<[attr |-> "T_TARGET", val |-> [ty |-> "float", tenths |-> 215]]>>}

\* ----------------------------------------------------------- specification
Step(t) ==
    \/ Deliver(t)
    \/ Resume(t)
    \/ \E o \in Outcomes : PostDone(t, o)
    \/ SleepDone(t)
    \/ /\ task[t].pc = "get"
       /\ \E o \in Outcomes, d \in 0..MaxHttpTime, body \in Bodies : GetDone(t, o, d, body)

Next ==
    \/ \E t \in Tasks : update_data(t)
    \/ \E t \in Tasks, b \in BOOLEAN : set_cooling(t, b)
    \/ \E t \in Tasks, command \in RawCommands : send_command(t, command)
    \/ \E t \in Tasks, h \in HeatAreaIds, a \in AttributeMaps : update_heat_area(t, h, a)
    \/ \E t \in Tasks, acc \in Accessors : read(t, acc)
    \/ \E t \in Tasks : Step(t)
    \/ \E t \in Tasks : Cancel(t)
    \/ DeviceApply

Spec == Init /\ [][Next]_vars

\* every request eventually returns or fails, every sleep ends, and the event
\* loop runs every woken waiter
FairSpec == Spec /\ \A t \in Tasks : WF_vars(Step(t))


\* -------------------------------------------------------------- properties
InFlight(t) == task[t].pc \in {"post", "get"}
Unfinished(t) == task[t].pc \in {"waiting", "post", "sleep", "get"}
IsCall(t, op) == task[t].call.op = op

\* C1: at most one task is inside the gated section of update_data,
\* update_heat_area, set_cooling or send_command, the lock is held for as
\* long as a task is inside (its sleeps and fetches included), and so at most
\* one HTTP request of the facade is in flight.
C1_MutualExclusion ==
    /\ Cardinality({t \in Tasks : Inside(t)}) <= 1
    /\ (\E t \in Tasks : Inside(t)) => locked
    /\ Cardinality({t \in Tasks : InFlight(t)}) <= 1

\* a set_cooling sleeps in its polling loop while another call waits at the gate
C1_Witness ==
    \E t, u \in Tasks :
        /\ task[t].pc = "sleep"
        /\ task[u].pc = "waiting"

\* C2: of two set_cooling calls started one after the other, the later one
\* is not inside the gate and has posted nothing for as long as the earlier
\* one has not finished, so the cooling commands go out in the order of the
\* calls and the poll loops do not interleave.
C2_CoolingCallsSerialized ==
    \A a, b \in Tasks :
        (/\ a < b
         /\ IsCall(a, "set_cooling")
         /\ IsCall(b, "set_cooling")
         /\ Unfinished(a))
        => (~Inside(b) /\ last_post # b)

\* the first set_cooling polls, the second, with the opposite value, waits
C2_Witness ==
    \E a, b \in Tasks :
        /\ a < b
        /\ IsCall(a, "set_cooling")
        /\ IsCall(b, "set_cooling")
        /\ task[a].call.value # task[b].call.value
        /\ task[a].pc = "get"
        /\ last_post = a
        /\ task[b].pc = "waiting"

TimeoutRaised(t) == task[t].pc = "done" /\ task[t].result.exc = "TimeoutError"
Polling(t, v) ==
    /\ IsCall(t, "set_cooling")
    /\ task[t].call.value = v
    /\ task[t].pc \in {"sleep", "get"}
\* the call of task t meets no transport or parse failure and is not cancelled
Undisturbed(t) == task[t].result.exc \in {"pending", "none", "TimeoutError"}

\* C3: set_cooling raises TimeoutError only when the time measured since the
\* command was sent exceeds command_timeout strictly; a set_cooling that ends
\* while the appliance does not report the requested value, having met no
\* transport or parse failure and no cancellation, ends by TimeoutError; and
\* a set_cooling that polls does end, it never polls forever.
C3_TimeoutAfterDeadline ==
    /\ [](\A t \in Tasks :
            task[t].result.exc = "TimeoutError"
            => task[t].result.elapsed > command_timeout)
    /\ [](\A t \in Tasks :
            (/\ IsCall(t, "set_cooling")
             /\ task[t].pc = "done"
             /\ Undisturbed(t)
             /\ dev_cooling # task[t].call.value)
            => TimeoutRaised(t))
    /\ \A t \in Tasks :
           (Polling(t, 0) \/ Polling(t, 1)) ~> (task[t].pc = "done")

\* a timeout raised at the first instant past the deadline
C3_Witness ==
    \E t \in Tasks :
        /\ TimeoutRaised(t)
        /\ task[t].result.elapsed = command_timeout + 1

\* C4: when set_cooling(v) returns normally, the cached snapshot is the
\* document the appliance served to the confirming poll, and cooling read
\* from it equals v, whatever other gated calls were started meanwhile.
C4_ReturnedCoolingConfirmed ==
    \A t \in Tasks :
        (/\ IsCall(t, "set_cooling")
         /\ task[t].pc = "done"
         /\ task[t].result = Returned)
        => /\ static_data = Normalise(DeviceTree)
           /\ Accessor(static_data, "cooling")
                  = [exc |-> "none", value |-> (task[t].call.value = 1)]

\* set_cooling(True) returns while a later set_cooling(False), which has
\* already written its value into the cache, waits at the gate
C4_Witness ==
    \E t, u \in Tasks :
        /\ IsCall(t, "set_cooling")
        /\ task[t].pc = "done"
        /\ task[t].result = Returned
        /\ task[t].call.value = 1
        /\ IsCall(u, "set_cooling")
        /\ task[u].call.value = 0
        /\ task[u].pc = "waiting"

\* the exceptions that arise only inside the gated section
GatedErrors == HttpErrors \cup {"TimeoutError", "ExpatError"}

\* C5: the lock is held only while some call is inside the gated section,
\* so a call that left it, normally or by cancellation, did not keep the
\* lock; when a call has just ended by TimeoutError or a transport or parse
\* error the lock is free; and every task still queued for the lock is one
\* that waits, so the next one can take it.
C5_GateReleasedOnExit ==
    /\ locked => \E t \in Tasks : Inside(t)
    /\ (\E t \in Tasks : task[t].pc = "done" /\ task[t].result.exc \in GatedErrors)
       => ~locked
    /\ \A i \in 1..Len(waiters) : task[waiters[i]].pc = "waiting"

\* a set_cooling has timed out, the lock is free and an update_data waits
C5_Witness ==
    \E t, u \in Tasks :
        /\ TimeoutRaised(t)
        /\ ~locked
        /\ IsCall(u, "update_data")
        /\ task[u].pc = "waiting"

\* C6: whoever holds the lock is a call inside the gated section that does
\* not itself wait for the lock, and every call that was started is over in
\* the end: the calls queued at the lock are all served.
C6_AllCallsComplete ==
    /\ [](locked => \E t \in Tasks :
                       Inside(t) /\ \A i \in 1..Len(waiters) : waiters[i] # t)
    /\ \A t \in Tasks : (task[t].pc # "idle") ~> (task[t].pc = "over")

\* one call is inside the gated section and two more wait for the lock
C6_Witness ==
    \E t \in Tasks :
        /\ Inside(t)
        /\ Len(waiters) >= 2
        /\ \A i \in 1..Len(waiters) : Unfinished(waiters[i])

TransportOrDecodingErrors == {"ClientConnectionError", "UnicodeDecodeError"}

\* C8: a transport call makes at most two attempts, and it is at its second
\* attempt only when the first one failed with a transport-level or decoding
\* error.
C8_SecondAttemptOnlyAfterTransportError ==
    \A t \in Tasks :
        /\ task[t].trynum <= 2
        /\ task[t].trynum = 2 => task[t].first_error \in TransportOrDecodingErrors

\* C9: a GET or POST whose first response carried an error status is not
\* sent again.
C9_ErrorStatusNotRetried ==
    \A t \in Tasks :
        (InFlight(t) /\ task[t].first_error = "ClientResponseError")
        => task[t].trynum = 1

\* the largest heat area ordinal the two forms of the id are compared for
MaxOrdinal == 12

\* f"{B}:{n}" and n, the two forms of a heat area id
QualifiedId(n) == [ty |-> "str", chars |-> BaseIdChars \o <<":">> \o IntChars(n)]
BareId(n) == [ty |-> "int", n |-> n]
AttributeDomain ==
    AttributeMaps \cup
    {<<>>,
     <<[attr |-> "BLOCK_HC", val |-> [ty |-> "bool", b |-> TRUE]],
       [attr |-> "HEATAREA_NAME", val |-> [ty |-> "str", chars |-> <<"A", ":", "1">>]]>>,
     <<[attr |-> "T_TARGET", val |-> [ty |-> "int", n |-> 21]],
       [attr |-> "PARTY", val |-> [ty |-> "str", chars |-> <<"0">>]],
       [attr |-> "UNKNOWN", val |-> [ty |-> "bool", b |-> FALSE]]>>}

\* update_heat_area called with either form of every ordinal and every
\* attribute map, one call after the other, each posting its command
CmdNext ==
    \/ \E t \in Tasks, n \in 0..MaxOrdinal, a \in AttributeDomain :
          /\ ~locked
          /\ \/ update_heat_area(t, QualifiedId(n), a)
             \/ update_heat_area(t, BareId(n), a)
    \/ \E t \in Tasks, o \in Outcomes : PostDone(t, o)
    \/ \E t \in Tasks : Deliver(t)

CmdSpec == Init /\ [][CmdNext]_vars

\* C10: on a facade that holds a snapshot with base id B, for every ordinal
\* n and attribute map the request body update_heat_area builds for "B:n"
\* and the one it builds for n are the same string, addressed to B, and the
\* body a call with either form has posted is that string.
C10_QualifiedAndBareIdPostSameBody ==
    \A t \in Tasks :
        (/\ IsCall(t, "update_heat_area")
         /\ task[t].pc = "post"
         /\ static_data # None)
        => \A n \in 0..MaxOrdinal, a \in AttributeDomain :
              LET q == HeatAreaCommand(static_data, QualifiedId(n), a)
                  u == HeatAreaCommand(static_data, BareId(n), a)
              IN  /\ q.exc = "none"
                  /\ u.exc = "none"
                  /\ q.device_id = BaseId
                  /\ Envelope(q.device_id, q.command) = Envelope(u.device_id, u.command)
                  /\ (/\ task[t].call.heat_area_id \in {QualifiedId(n), BareId(n)}
                      /\ task[t].call.attributes = a)
                     => task[t].xml = Envelope(u.device_id, u.command)

\* a call with the qualified id of a two-digit ordinal and a map of three
\* attributes has posted the body the bare ordinal gives
C10_Witness ==
    \E t \in Tasks, a \in AttributeDomain :
        /\ static_data # None
        /\ IsCall(t, "update_heat_area")
        /\ task[t].pc = "post"
        /\ task[t].call.heat_area_id = QualifiedId(MaxOrdinal)
        /\ task[t].call.attributes = a
        /\ Len(a) = 3
        /\ task[t].xml
             = Envelope(BaseId, HeatAreaCommand(static_data, BareId(MaxOrdinal), a).command)

\* ------------------------------------------------- documents and their views
\* the largest number of entries of one kind in a document
MaxEntries == 2

\* wire values of a boolean attribute: the two the appliance writes, and
\* unexpected ones
WireLiterals == {<<"0">>, <<"1">>, <<"2">>, <<>>, <<"a", "b", "c">>}

\* n heat areas, n heat controls of area 1 that are in use and idle, n io
\* devices of area 1, numbered from 1
StdAreas(n) == [i \in 1..n |-> Area(IntChars(i))]
StdCtrls(n) == [i \in 1..n |-> Ctrl(IntChars(i), <<"1">>, <<"1">>, <<"0">>)]
StdIos(n) == [i \in 1..n |-> Io(IntChars(i), <<"1">>)]

\* the sequences of 1 to n elements of S
SeqsUpTo(S, n) == UNION {[1..m -> S] : m \in 1..n}

\* documents with 0 to MaxEntries entries of each kind
CountDocs ==
    {Document(0, StdAreas(a), StdCtrls(c), StdIos(i)) : a, c, i \in 0..MaxEntries}

\* documents with one heat area and 1 to MaxEntries heat controls: of area 1,
\* in use or not, idle or in state 1 or 2, or of no area, in use, in state 2
CtrlKinds ==
    [INUSE : {<<"0">>, <<"1">>}, HEATAREA_NR : {<<"1">>},
     HEATCTRL_STATE : {<<"0">>, <<"1">>, <<"2">>}]
    \cup {[INUSE |-> <<"1">>, HEATAREA_NR |-> <<"0">>, HEATCTRL_STATE |-> <<"2">>]}
CtrlDocs ==
    {Document(0, StdAreas(1),
              [i \in 1..Len(ks) |->
                  Ctrl(IntChars(i), ks[i].INUSE, ks[i].HEATAREA_NR, ks[i].HEATCTRL_STATE)],
              StdIos(1)) : ks \in SeqsUpTo(CtrlKinds, MaxEntries)}

\* documents with 1 to MaxEntries io devices, each of area 0, 1 or 12 or
\* without the element HEATAREA_NR
IoKinds ==
    {[owned |-> FALSE]} \cup
    {[owned |-> TRUE, nr |-> a] : a \in {<<"0">>, <<"1">>, <<"1", "2">>}}
IoDocs ==
    {Document(0, StdAreas(1), StdCtrls(1),
              [i \in 1..Len(ks) |->
                  IF ks[i].owned THEN Io(IntChars(i), ks[i].nr)
                  ELSE [nr |-> IntChars(i), ISON |-> <<"1">>]])
        : ks \in SeqsUpTo(IoKinds, MaxEntries)}

\* documents whose one heat control has any of the wire values for INUSE
LiteralDocs ==
    {Document(0, StdAreas(1), <<Ctrl(<<"1">>, v, <<"1">>, <<"1">>)>>, StdIos(1))
        : v \in WireLiterals}

\* the standard document without its element NAME
NamelessDoc == [k \in DOMAIN DeviceTree \ {"NAME"} |-> DeviceTree[k]]

\* what the first fetch of a facade may meet, and what a later one may
ViewBodies ==
    {[wellformed |-> TRUE, tree |-> d] :
        d \in CountDocs \cup CtrlDocs \cup IoDocs \cup LiteralDocs \cup {NamelessDoc}}
    \cup {[wellformed |-> FALSE]}
RefreshBodies ==
    Bodies \cup {[wellformed |-> TRUE,
                  tree |-> Document(0, StdAreas(1), StdCtrls(1), <<>>)]}

\* update_data and the read accessors, one call after the other, on the
\* documents above
ViewNext ==
    \/ \E t \in Tasks : ~locked /\ update_data(t)
    \/ \E t \in Tasks :
          /\ task[t].pc = "get"
          /\ \E o \in Outcomes,
                body \in (IF static_data = None THEN ViewBodies ELSE RefreshBodies) :
                GetDone(t, o, 0, body)
    \/ \E t \in Tasks, acc \in Accessors : read(t, acc)
    \/ \E t \in Tasks : Deliver(t)

ViewSpec == Init /\ [][ViewNext]_vars

\* what a fetch of update_data answers with 200 and the document d
Answer(d) == [wellformed |-> TRUE, tree |-> d]

\* task t is in the GET of update_data and this step ends it with 200 and the
\* document d
Fetched(t, d) ==
    /\ task[t].pc = "get"
    /\ task[t].call.op = "update_data"
    /\ GetDone(t, "ok", 0, Answer(d))

\* the number of entities a collection accessor yields on sd, -1 if it raises
Yielded(sd, acc) ==
    IF Accessor(sd, acc).exc = "none" THEN Len(Accessor(sd, acc).value) ELSE -1

\* C11: an update_data that fetched a document with a heat areas, c heat
\* controls and i io devices, each from zero to MaxEntries, returns and leaves
\* a snapshot whose three collections are sequences of a, c and i records, and
\* heat_areas, heat_controls and io_devices then yield a, c and i entities.
C11_CollectionsAlwaysSequences ==
    [][\A t \in Tasks : \A a, c, i \in 0..MaxEntries :
          Fetched(t, Document(0, StdAreas(a), StdCtrls(c), StdIos(i))) =>
             /\ task'[t].result = Returned
             /\ \A j \in DOMAIN Collections :
                   /\ Collections[j] \in DOMAIN static_data'
                   /\ static_data'[Collections[j]].list
             /\ Yielded(static_data', "heat_areas") = a
             /\ Yielded(static_data', "heat_controls") = c
             /\ Yielded(static_data', "io_devices") = i]_vars

\* the caller of task t is being handed what the property acc gave
ReadDone(t, acc) ==
    /\ task[t].pc = "done"
    /\ task[t].call.op = "read"
    /\ task[t].call.acc = acc

\* the collection of the snapshot that the accessor acc goes through
CollectionOf(acc) ==
    CASE acc = "heat_areas" -> "HEATAREA"
      [] acc = "heat_controls" -> "HEATCTRL"
      [] acc = "io_devices" -> "IODEVICE"

\* "<base-id>:<ordinal>" for an ordinal as the document writes it
IdOf(sd, chars) == [ty |-> "str", s |-> sd.ID \o ":" \o Join(chars)]

\* C12: whenever heat_controls or io_devices has been read, every record of
\* the collection has been yielded as an entity whose ID is
\* "<base-id>:<own ordinal>" and whose _HEATAREA_ID is
\* "<base-id>:<HEATAREA_NR>" when HEATAREA_NR is non-zero, and null when
\* HEATAREA_NR is zero or the record has no HEATAREA_NR.
C12_DerivedIds ==
    \A t \in Tasks : \A acc \in {"heat_controls", "io_devices"} :
        (ReadDone(t, acc) /\ static_data # None) =>
            LET items == static_data[CollectionOf(acc)].items
                got == task[t].result
            IN  \A i \in 1..Len(items) :
                    /\ got.exc = "none" =>
                          /\ got.value[i].ID = IdOf(static_data, items[i].nr)
                          /\ got.value[i]._HEATAREA_ID =
                                IF /\ "HEATAREA_NR" \in DOMAIN items[i]
                                   /\ items[i].HEATAREA_NR # <<"0">>
                                THEN IdOf(static_data, items[i].HEATAREA_NR)
                                ELSE None
                    /\ "HEATAREA_NR" \notin DOMAIN items[i] =>
                          /\ got.exc = "none"
                          /\ got.value[i]._HEATAREA_ID = None

\* C13: whenever heat_controls has been read, convert_types_from_xml has
\* turned each record of the collection into a copy without raising, and the
\* boolean attribute INUSE of the copy is true when the wire value is "1" and
\* false for every other wire value ("0", "2", "", "abc").
C13_BoolFromWire ==
    \A t \in Tasks :
        (ReadDone(t, "heat_controls") /\ static_data # None) =>
            \A i \in 1..Len(static_data.HEATCTRL.items) :
                LET heat_control == static_data.HEATCTRL.items[i]
                    converted == convert_types_from_xml("HEATCTRL", heat_control)
                IN  /\ converted.exc = "none"
                    /\ task[t].result.exc = "none"
                    /\ converted.value.INUSE =
                          [ty |-> "bool", b |-> heat_control.INUSE = <<"1">>]
                    /\ task[t].result.value[i].INUSE = converted.value.INUSE

\* C14: a step that changes the cached snapshot is a step of the task that
\* holds the gate, and while a task is inside a gated section no step of
\* another task changes the cached snapshot.
C14_CacheWrittenByGateHolder ==
    [][/\ static_data' # static_data =>
             \E t \in Tasks : Inside(t) /\ task'[t] # task[t]
       /\ \A u \in Tasks :
             (Inside(u) /\ task'[u] = task[u]) => static_data' = static_data]_vars

\* C15: a set_cooling writes the requested value into the cached snapshot in
\* the step in which its command has been sent, right before it starts to
\* poll, and in no earlier step; so a set_cooling whose POST fails has left
\* the cached cooling flag as it was.
C15_SendThenWriteThenPoll ==
    [][\A t \in Tasks :
          (task'[t] # task[t] /\ task'[t].call.op = "set_cooling") =>
              IF task[t].pc = "post" /\ task'[t].pc = "sleep"
              THEN static_data' = WriteCooling(static_data, task'[t].call.value)
              ELSE task[t].pc \in {"idle", "waiting", "post"} =>
                      static_data' = static_data]_vars

\* C16: a poll of set_cooling(v) that fetched a snapshot not reporting v
\* leaves the cached snapshot as it is, whether the call sleeps again or
\* fails with the command timeout, and when it fails with the timeout the
\* cooling accessor gives v.
C16_TimeoutKeepsOptimisticValue ==
    [][\A t \in Tasks :
          (/\ task[t].pc = "get"
           /\ task[t].call.op = "set_cooling"
           /\ \/ task'[t].pc = "sleep"
              \/ task'[t].pc = "done" /\ task'[t].result.exc = "TimeoutError") =>
              /\ static_data' = static_data
              /\ task'[t].pc = "done" =>
                    Accessor(static_data', "cooling") =
                       [exc |-> "none", value |-> task[t].call.value = 1]]_vars

\* the errors of a fetch, a parse or a normalisation
FetchFailed(r) ==
    \/ r.exc \in HttpErrors \cup {"ExpatError"}
    \/ r.exc = "KeyError" /\ \E j \in DOMAIN Collections : r.key = Collections[j]

\* the snapshot sd is the document d with each collection as a sequence
IsSnapshotOf(sd, d) ==
    /\ sd # None
    /\ DOMAIN sd = DOMAIN d
    /\ \A k \in DOMAIN d :
          IF \E j \in DOMAIN Collections : k = Collections[j]
          THEN /\ sd[k].list
               /\ sd[k].items = IF d[k].list THEN d[k].items ELSE <<d[k].item>>
          ELSE sd[k] = d[k]

\* C17: the one step of an update_data that changes the cached snapshot is
\* the end of a fetch that succeeded, and it replaces the snapshot by the
\* whole fetched document; when the fetch, the parse or the normalisation
\* fails the call raises that error and the cached snapshot stays what it
\* was, absent or present.
C17_ReplacedOnlyOnSuccessfulFetch ==
    [][\A t \in Tasks :
          (task[t].call.op = "update_data" /\ task'[t] # task[t]) =>
              /\ static_data' # static_data =>
                    /\ task[t].pc = "get"
                    /\ task'[t].pc = "done"
                    /\ ~FetchFailed(task'[t].result)
              /\ (task'[t].pc = "done" /\ task'[t].result.exc # "none") =>
                    task'[t].result.exc \in
                        HttpErrors \cup {"ExpatError", "KeyError", "CancelledError"}
              /\ (task[t].pc = "get" /\ task'[t].pc = "done") =>
                    \A d \in CountDocs :
                        Fetched(t, d) =>
                            IF \A j \in DOMAIN Collections : Collections[j] \in DOMAIN d
                            THEN /\ task'[t].result = Returned
                                 /\ IsSnapshotOf(static_data', d)
                            ELSE /\ FetchFailed(task'[t].result)
                                 /\ static_data' = static_data]_vars

\* an update_data on a facade with a snapshot has failed on a document
\* without io devices, and the snapshot is still there
C17_Witness ==
    \E t \in Tasks :
        /\ task[t].pc = "done"
        /\ task[t].call.op = "update_data"
        /\ task[t].result = MissingKey("IODEVICE")
        /\ static_data # None

\* the calls that send a command and wait for no confirmation
Unconfirmed == {"update_heat_area", "send_command"}

\* C18: no step of an update_heat_area or of a send_command changes the
\* cached snapshot, whether its POST succeeds or fails, and none brings the
\* call to a GET of the state document or to the sleep of a poll: the step
\* after the POST is the end of the call.
C18_FireAndForget ==
    [][\A t \in Tasks :
          (/\ task'[t] # task[t]
           /\ task[t].call.op \in Unconfirmed \/ task'[t].call.op \in Unconfirmed) =>
              /\ static_data' = static_data
              /\ task'[t].pc \notin {"get", "sleep"}
              /\ (task[t].pc = "post" /\ task'[t].pc # "post") => task'[t].pc = "done"]_vars

\* an update_heat_area has returned after its POST, a snapshot cached
C18_Witness ==
    \E t \in Tasks :
        /\ task[t].pc = "done"
        /\ task[t].call.op = "update_heat_area"
        /\ task[t].result = Returned
        /\ static_data # None

\* the heat controls of the snapshot sd that count for the area whose ordinal
\* the document writes as nr: in use (wire value "1") and of that area, in
\* document order
Counting(sd, nr) ==
    SelectSeq(sd.HEATCTRL.items,
              LAMBDA c : c.INUSE = <<"1">> /\ c.HEATAREA_NR = nr)

\* every heat control of the snapshot sd has "0" or "1" for INUSE
FlagsOnWire(sd) ==
    \A k \in 1..Len(sd.HEATCTRL.items) : sd.HEATCTRL.items[k].INUSE \in {<<"0">>, <<"1">>}

\* the state of the earliest control of cs that is not idle, 0 without one
EarliestNonIdle(cs) ==
    IF \A k \in 1..Len(cs) : cs[k].HEATCTRL_STATE = <<"0">> THEN 0
    ELSE ParseInt(cs[CHOOSE k \in 1..Len(cs) :
                        /\ cs[k].HEATCTRL_STATE # <<"0">>
                        /\ \A m \in 1..(k - 1) : cs[m].HEATCTRL_STATE = <<"0">>]
                    .HEATCTRL_STATE).value

\* C19: whenever heat_areas has been read on a snapshot whose heat controls
\* have INUSE "0" or "1", every heat area that no heat
\* control in use (INUSE "1") references has been yielded with
\* _HEATCTRL_STATE 0, whatever the state of the controls not in use that
\* reference it.
C19_UnusedControlNeverCounts ==
    \A t \in Tasks :
        (ReadDone(t, "heat_areas") /\ static_data # None /\ FlagsOnWire(static_data)) =>
            \A i \in 1..Len(static_data.HEATAREA.items) :
                Counting(static_data, static_data.HEATAREA.items[i].nr) = <<>> =>
                    /\ task[t].result.exc = "none"
                    /\ task[t].result.value[i]._HEATCTRL_STATE = [ty |-> "int", n |-> 0]

\* C20: whenever heat_areas has been read on a snapshot whose heat controls
\* have INUSE "0" or "1", every heat area has been yielded
\* with _HEATCTRL_STATE the state of the earliest control, in document order,
\* that is in use, references the area and is not idle, and 0 when there is
\* no such control.
C20_EarliestNonIdleControlWins ==
    \A t \in Tasks :
        (ReadDone(t, "heat_areas") /\ static_data # None /\ FlagsOnWire(static_data)) =>
            \A i \in 1..Len(static_data.HEATAREA.items) :
                /\ task[t].result.exc = "none"
                /\ task[t].result.value[i]._HEATCTRL_STATE =
                      [ty |-> "int",
                       n |-> EarliestNonIdle(
                                Counting(static_data, static_data.HEATAREA.items[i].nr))]

\* C21: a set_cooling sleeps after its POST and fetches only after a sleep,
\* and it raises TimeoutError only at the end of a fetch; a fetch that ends
\* with a document reporting the requested value makes the call return, also
\* past the deadline, and only such a fetch does; the call raises
\* TimeoutError only when the value differs and the deadline is passed, and
\* sleeps again only when the value differs and the deadline is not passed.
C21_PollThenMatchThenDeadline ==
    [][\A t \in Tasks :
          /\ (/\ task[t].pc # "done"
              /\ task'[t].pc = "done"
              /\ task'[t].result.exc = "TimeoutError") => task[t].pc = "get"
          /\ (/\ task'[t].call.op = "set_cooling"
              /\ task[t].pc # "get"
              /\ task'[t].pc = "get") => task[t].pc = "sleep"
          /\ (/\ task[t].call.op = "set_cooling"
              /\ task[t].pc = "post"
              /\ task'[t].pc \notin {"post", "done"}) => task'[t].pc = "sleep"
          /\ (/\ task[t].call.op = "set_cooling"
              /\ task[t].pc = "get"
              /\ task'[t].pc = "sleep") =>
                 dev_cooling # task[t].call.value /\ elapsed' <= command_timeout
          /\ (/\ task[t].call.op = "set_cooling"
              /\ task[t].pc = "get"
              /\ task'[t].pc = "done"
              /\ task'[t].result.exc = "TimeoutError") =>
                 /\ dev_cooling # task[t].call.value
                 /\ task'[t].result.elapsed > command_timeout
          /\ (/\ task[t].call.op = "set_cooling"
              /\ task[t].pc = "get"
              /\ task'[t].pc = "done"
              /\ task'[t].result = Returned) =>
                 dev_cooling = task[t].call.value]_vars

\* a fetch of set_cooling is under way past the deadline while the appliance
\* reports the requested value
C21_Witness ==
    \E t \in Tasks :
        /\ task[t].call.op = "set_cooling"
        /\ task[t].pc = "get"
        /\ elapsed > command_timeout
        /\ dev_cooling = task[t].call.value

\* ------------------------------------------------- views consumed lazily
\* the document of another installation: two heat areas, two heat controls
\* at work, two io devices, another base id
OtherTree ==
    [Document(0, StdAreas(2),
              <<Ctrl(<<"1">>, <<"1">>, <<"1">>, <<"2">>),
                Ctrl(<<"2">>, <<"1">>, <<"2">>, <<"1">>)>>,
              StdIos(2)) EXCEPT !.ID = "EZR2"]

IterBodies == {Answer(DeviceTree), Answer(OtherTree)}

\* the generator of a collection property, suspended at a yield (or not yet
\* at its first one)
Iterating(c) == Frame("iter", c, Pending, "", 0, "none")

\* a generator that looks the snapshot up in the cache at every step
CachedNow(f) == static_data

\* device = self.static_data["Devices"]["Device"]: the snapshot the
\* generator of frame f took when it started
Captured(f) == f.call.device

\* the entity the generator makes of one record of its collection
Entity(device, kind, item) ==
    IF kind = "HEATAREA" THEN HeatArea(device, item) ELSE Device(device, kind, item)

\* a consumer takes the generator of the property acc and starts it: it
\* checks for a snapshot and binds device
iterate(t, acc) ==
    /\ CanStart(t)
    /\ IF ensure_static_data(static_data) # "none"
       THEN Commit(t, Done([op |-> "iterate", acc |-> acc, device |-> None,
                            yielded |-> <<>>],
                           Raised(ensure_static_data(static_data))))
       ELSE Commit(t, Iterating([op |-> "iterate", acc |-> acc,
                                 device |-> static_data, yielded |-> <<>>]))
    /\ UNCHANGED <<static_data, locked, waiters, elapsed, last_post, dev_cooling,
                   dev_pending>>

\* the consumer asks for the next entity: the generator yields it, raises,
\* or is exhausted
IterNext(t) ==
    LET f == task[t]
        kind == CollectionOf(f.call.acc)
        items == Captured(f)[kind].items
        pos == Len(f.call.yielded) + 1
        made == Entity(Captured(f), kind, items[pos])
    IN  /\ Quiet
        /\ f.pc = "iter"
        /\ IF pos > Len(items)
           THEN Commit(t, Done(f.call, [exc |-> "none", value |-> f.call.yielded]))
           ELSE IF made.exc # "none" THEN Commit(t, Done(f.call, Raised(made.exc)))
           ELSE Commit(t, Iterating([f.call EXCEPT
                                        !.yielded = Append(f.call.yielded, made.value)]))
        /\ UNCHANGED <<static_data, locked, waiters, elapsed, last_post, dev_cooling,
                       dev_pending>>

\* the collection properties consumed step by step, one view at a time, while
\* update_data and set_cooling(True) replace the snapshot
IterationNext ==
    \/ \E t \in Tasks : update_data(t)
    \/ \E t \in Tasks : set_cooling(t, TRUE)
    \/ \E t \in Tasks, acc \in {"heat_areas", "heat_controls", "io_devices"} :
          (\A u \in Tasks : task[u].pc # "iter") /\ iterate(t, acc)
    \/ \E t \in Tasks : IterNext(t)
    \/ \E t \in Tasks : Deliver(t)
    \/ \E t \in Tasks : Resume(t)
    \/ \E t \in Tasks : PostDone(t, "ok")
    \/ \E t \in Tasks : SleepDone(t)
    \/ \E t \in Tasks :
          task[t].pc = "get" /\ \E body \in IterBodies : GetDone(t, "ok", 0, body)
    \/ DeviceApply

IterSpec == Init /\ [][IterationNext]_vars

\* C22: a collection view that has started iterating on a snapshot has
\* yielded, at every moment, the entities of the first records of that
\* snapshot, scan of the heat controls and base id included, and ends with
\* all the entities of that snapshot (or with the exception the snapshot
\* makes it raise), whatever replaced the cached snapshot meanwhile; and a
\* view takes the snapshot that is cached when it starts.
C22_NoTornReads ==
    /\ [](\A t \in Tasks :
            (task[t].call.op = "iterate" /\ task[t].call.device # None) =>
                LET c == task[t].call
                    kind == CollectionOf(c.acc)
                IN  /\ \A i \in 1..Len(c.yielded) :
                          c.yielded[i] = Entity(c.device, kind, c.device[kind].items[i]).value
                    /\ task[t].pc = "done" => task[t].result = Entities(c.device, kind))
    /\ [][\A t \in Tasks :
            (task[t].pc = "idle" /\ task'[t].call.op = "iterate") =>
                task'[t].call.device = static_data]_vars

\* heat_areas has been consumed to its end on the snapshot of one
\* installation while the cache went over to the snapshot of another
C22_Witness ==
    \E t \in Tasks :
        /\ task[t].pc = "done"
        /\ task[t].call.op = "iterate"
        /\ task[t].call.acc = "heat_areas"
        /\ task[t].result.exc = "none"
        /\ Len(task[t].result.value) = 2
        /\ static_data.ID # task[t].call.device.ID

====
